---- MODULE Spec2Model ----
(***************************************************************************)
(* library/ceph_key.py: the Ansible module that manages CephX keys.  One   *)
(* behaviour of Spec is one invocation of run_module(): the parameters and *)
(* check mode are fixed by Init, every external command, file test and     *)
(* chown/chmod is answered by the environment when it is made.             *)
(***************************************************************************)
EXTENDS Integers, Sequences, FiniteSets, TLC

VARIABLES
    params,      \* module.params: state, name, cluster, containerized, caps, secret, import_key, dest
    check_mode,  \* module.check_mode
    pc,          \* position in run_module
    assigned,    \* whether an assignment has reached the locals rc, cmd, out, err
    rc, cmd, out, err,   \* the locals every exec_commands call assigns
    result,      \* the local dict 'result'
    entities,    \* fetch_initial_keys: what lookup_ceph_initial_entities returned
    idx,         \* fetch_initial_keys: position of the for loop in entities
    fs,          \* what is known of the key paths on disk: "unknown", "file", "absent"
    on_disk,     \* fetch_initial_keys: what os.path.isfile(key_path) last answered
    outcome,     \* how the invocation ended: running, return, exit_json, fail_json, exception
    reported,    \* the keyword arguments handed to exit_json / fail_json
    log,         \* every external effect so far, in order: commands run, chown, chmod
    first_fail,  \* position in log and exit code of the first command that exited non-zero
    call, ret    \* argument and result of a library function applied on its own

vars == <<params, check_mode, pc, assigned, rc, cmd, out, err, result, entities, idx, fs, on_disk,
          outcome, reported, log, first_fail, call, ret>>

-----------------------------------------------------------------------------
(* Bounds of the model *)

MaxRc == 1         \* exit codes of a command range over 0..MaxRc
MaxMissing == 2    \* a listing lacks at most this many of the initial entities
MaxDup == 2        \* a listing repeats its first entity at most this many times
MaxExtra == 1      \* a listing holds at most this many entities that are not initial
MaxCaps == 3       \* entries of a capability mapping
MaxCmds == 3       \* commands of a list handed to exec_commands on its own

-----------------------------------------------------------------------------
(* Python values *)

None == "<None>"
Unbound == "<unbound>"          \* the value of a name that nothing binds

\* 'not v' is false for a string or None: v is neither None nor ''
Truthy(v) == v # None /\ v # ""

\* A dict parameter: None, or the mapping as its <<key, value>> items in
\* iteration order
NoneDict == [none |-> TRUE, items |-> <<>>]
Dict(items) == [none |-> FALSE, items |-> items]

\* 'not d' is false for a dict or None: d is neither None nor empty
TruthyDict(d) == ~d.none /\ Len(d.items) > 0

Range(s) == {s[i] : i \in 1..Len(s)}

\* sub in s
Contains(sub, s) ==
    \E i \in 1..(Len(s) - Len(sub) + 1) : SubSeq(s, i, i + Len(sub) - 1) = sub

\* str.split(sep) for a one-character sep: empty fields are kept
RECURSIVE SplitOn(_, _, _, _)
SplitOn(s, sep, i, cur) ==
    IF i > Len(s) THEN <<cur>>
    ELSE IF SubSeq(s, i, i) = sep
         THEN <<cur>> \o SplitOn(s, sep, i + 1, "")
         ELSE SplitOn(s, sep, i + 1, cur \o SubSeq(s, i, i))

\* str.split(): runs of blanks separate, no empty field
RECURSIVE SplitBlank(_, _, _)
SplitBlank(s, i, cur) ==
    IF i > Len(s) THEN (IF cur = "" THEN <<>> ELSE <<cur>>)
    ELSE IF SubSeq(s, i, i) \in {" ", "\t"}
         THEN (IF cur = "" THEN <<>> ELSE <<cur>>) \o SplitBlank(s, i + 1, "")
         ELSE SplitBlank(s, i + 1, cur \o SubSeq(s, i, i))

\* s.rstrip("\r\n")
RECURSIVE rstrip(_)
rstrip(s) ==
    IF Len(s) > 0 /\ SubSeq(s, Len(s), Len(s)) \in {"\r", "\n"}
    THEN rstrip(SubSeq(s, 1, Len(s) - 1))
    ELSE s

\* The text a command prints, with what json.loads makes of it
NotJson == [ValueError |-> "No JSON object could be decoded"]
Text(s) == [text |-> s, json |-> NotJson]
JsonText(doc) == [text |-> "{...}\n", json |-> doc]

-----------------------------------------------------------------------------
(* Constants of the module *)

CEPH_INITIAL_KEYS ==
    << "client.admin", "client.bootstrap-mds", "client.bootstrap-mgr",
       "client.bootstrap-osd", "client.bootstrap-rbd",
       "client.bootstrap-rbd-mirror", "client.bootstrap-rgw" >>

-----------------------------------------------------------------------------
(* Command builders *)

\* generate_caps without the test of lines 225-226: empty keys are kept
generate_caps_unfiltered(c, _type, caps) ==
    LET step[i \in 0..Len(caps)] ==
            IF i = 0 THEN c
            ELSE step[i - 1]
                 \o (IF _type = "ceph-authtool" THEN <<"--cap">> ELSE <<>>)
                 \o <<caps[i][1], caps[i][2]>>
    IN  step[Len(caps)]

\* caps is the mapping in iteration order: a sequence of <<key, value>>
generate_caps(c, _type, caps) ==
    LET step[i \in 0..Len(caps)] ==
            IF i = 0 THEN c
            ELSE IF Len(caps[i][1]) = 0 THEN step[i - 1]
            ELSE step[i - 1]
                 \o (IF _type = "ceph-authtool" THEN <<"--cap">> ELSE <<>>)
                 \o <<caps[i][1], caps[i][2]>>
    IN  step[Len(caps)]

generate_ceph_cmd(cluster, args, user, user_key, containerized) ==
    LET base_cmd == <<"ceph", "-n", user, "-k", user_key, "--cluster", cluster, "auth">>
        c == base_cmd \o args
    IN  IF Truthy(containerized) THEN SplitBlank(containerized, 1, "") \o c ELSE c

admin_keyring(cluster) == "/etc/ceph/" \o cluster \o ".client.admin.keyring"

update_key(cluster, name, caps, containerized) ==
    LET args == generate_caps(<<"caps", name>>, "ceph", caps.items)
    IN  << generate_ceph_cmd(cluster, args, "client.admin", admin_keyring(cluster), containerized) >>

delete_key(cluster, name, containerized) ==
    << generate_ceph_cmd(cluster, <<"del", name>>, "client.admin",
                         admin_keyring(cluster), containerized) >>

info_key(cluster, name, user, user_key, output_format, containerized) ==
    << generate_ceph_cmd(cluster, <<"get", name, "-f", output_format>>,
                         user, user_key, containerized) >>

list_keys(cluster, user, user_key, containerized) ==
    << generate_ceph_cmd(cluster, <<"ls", "-f", "json">>, user, user_key, containerized) >>

-----------------------------------------------------------------------------
(* Calls that may raise: the exception, or the value returned *)

Raise(e) == [exc |-> e]
Return(v) == [val |-> v]
Raised(x) == "exc" \in DOMAIN x
\* A call that has not returned yet
Pending == [pending |-> TRUE]

\* The names the module binds at top level (imports, constants, functions)
ModuleGlobals ==
    { "AnsibleModule", "datetime", "grp", "json", "os", "pwd", "stat", "struct",
      "time", "base64", "socket", "ANSIBLE_METADATA", "DOCUMENTATION", "EXAMPLES",
      "RETURN", "CEPH_INITIAL_KEYS", "fatal", "generate_secret", "generate_caps",
      "generate_ceph_cmd", "generate_ceph_authtool_cmd", "create_key", "update_key",
      "delete_key", "info_key", "list_keys", "exec_commands",
      "lookup_ceph_initial_entities", "build_key_path", "run_module", "main" }

\* The names run_module assigns
run_module_locals ==
    { "module_args", "module", "state", "name", "cluster", "containerized", "caps",
      "secret", "import_key", "dest", "result", "startd", "user", "user_key",
      "output_format", "rc", "cmd", "out", "err", "file_path", "file_args",
      "hostname", "entities", "ceph_uid", "ceph_grp", "entity", "key_path",
      "extra_args", "info_cmd", "endd", "delta" }

\* Reading a name that neither the function nor the module binds raises NameError
NameBound(n, locals) == n \in locals \cup ModuleGlobals

\* The keyring file of a key: dest + "/" + cluster + "." + name + ".keyring"
keyring_path(dest, cluster, name) == dest \o "/" \o cluster \o "." \o name \o ".keyring"

\* generate_secret(): base64 of a packed header and 16 random bytes
GeneratedSecret == "<generated>"

\* Builds the ceph-authtool tokens, then reads base_cmd, which it never binds
generate_ceph_authtool_cmd(cluster, name, secret, caps, auid, dest, containerized) ==
    LET file_destination == keyring_path(dest, cluster, name)
        c == << "ceph-authtool", "--create-keyring", file_destination,
                "--name", name, "--add-key", secret >>
    IN  IF NameBound("base_cmd", { "cluster", "name", "secret", "caps", "auid", "dest",
                                   "containerized", "file_destination", "cmd" })
        THEN Return(IF Truthy(containerized)
                    THEN SplitBlank(containerized, 1, "") \o generate_caps(c, "ceph-authtool", caps.items)
                    ELSE generate_caps(c, "ceph-authtool", caps.items))
        ELSE Raise("NameError")

\* Reads container_image, which it never binds, while building the call of
\* generate_ceph_authtool_cmd(cluster, name, secret, caps, dest, container_image)
create_key(cluster, name, secret, caps, import_key, auid, dest, containerized) ==
    IF NameBound("container_image", { "module", "result", "cluster", "name", "secret",
                                      "caps", "import_key", "auid", "dest", "containerized",
                                      "file_path", "args", "cmd_list", "user", "user_key" })
    THEN LET file_path == keyring_path(dest, cluster, name)
             key == IF Truthy(secret) THEN secret ELSE GeneratedSecret
             authtool == generate_ceph_authtool_cmd(cluster, name, key, caps, dest,
                                                    Unbound, None)
         IN  IF Raised(authtool) THEN authtool
             ELSE Return(<<authtool.val>>
                         \o (IF import_key
                             THEN << generate_ceph_cmd(cluster, <<"import", "-i", file_path>>,
                                        "client.admin", admin_keyring(cluster), containerized) >>
                             ELSE <<>>))
    ELSE Raise("NameError")

-----------------------------------------------------------------------------
(* exec_commands: cmd_list run in order against the answers run_command gives *)

\* An answer of module.run_command
Resp(r, o, e) == [rc |-> r, out |-> o, err |-> e]

\* exec_commands without the early return: every command of the list runs
exec_commands_no_halt(cmd_list, resps) ==
    LET loop[i \in 0..Len(cmd_list)] ==
            IF i = 0 THEN [bound |-> FALSE, rc |-> 0, cmd |-> <<>>, out |-> Text(""),
                           err |-> Text(""), ran |-> <<>>, halted |-> FALSE]
            ELSE [bound |-> TRUE, rc |-> resps[i].rc, cmd |-> cmd_list[i], out |-> resps[i].out,
                  err |-> resps[i].err, ran |-> Append(loop[i - 1].ran, cmd_list[i]),
                  halted |-> FALSE]
        last == loop[Len(cmd_list)]
    IN  IF ~last.bound THEN Raise("UnboundLocalError")
        ELSE Return([rc |-> last.rc, cmd |-> last.cmd, out |-> last.out,
                     err |-> last.err, ran |-> last.ran])

\* loop[i]: the locals after i iterations of the for loop (bound: whether
\* rc, cmd, out, err are assigned); halted once the loop body has returned.
\* ran: the commands handed to run_command.
exec_commands(cmd_list, resps) ==
    LET loop[i \in 0..Len(cmd_list)] ==
            IF i = 0 THEN [bound |-> FALSE, rc |-> 0, cmd |-> <<>>, out |-> Text(""),
                           err |-> Text(""), ran |-> <<>>, halted |-> FALSE]
            ELSE IF loop[i - 1].halted THEN loop[i - 1]
            ELSE [bound |-> TRUE, rc |-> resps[i].rc, cmd |-> cmd_list[i], out |-> resps[i].out,
                  err |-> resps[i].err, ran |-> Append(loop[i - 1].ran, cmd_list[i]),
                  halted |-> resps[i].rc # 0]
        last == loop[Len(cmd_list)]
    IN  IF ~last.bound THEN Raise("UnboundLocalError")
        ELSE Return([rc |-> last.rc, cmd |-> last.cmd, out |-> last.out,
                     err |-> last.err, ran |-> last.ran])

-----------------------------------------------------------------------------
(* fetch_initial_keys helpers *)

\* The entities of the auth map that are initial keys, in the order listed
initial_entities(dump) ==
    LET scan[i \in 0..Len(dump)] ==
            IF i = 0 THEN <<>>
            ELSE IF "entity" \in DOMAIN dump[i] /\ dump[i]["entity"] \in Range(CEPH_INITIAL_KEYS)
                 THEN Append(scan[i - 1], dump[i]["entity"])
                 ELSE scan[i - 1]
    IN  scan[Len(dump)]

\* A result of <<>> stands for the None returned when the count is wrong (the
\* list returned otherwise holds seven names).  Both fatal() calls read 'module', which is bound in run_module only: they
\* raise NameError instead of failing through fail_json
lookup_ceph_initial_entities(o) ==
    IF o.json = NotJson
    THEN (IF NameBound("module", {"out", "out_dict", "entities", "key", "k", "v", "e"})
          THEN Raise("fail_json") ELSE Raise("NameError"))
    ELSE IF "auth_dump" \notin DOMAIN o.json
    THEN (IF NameBound("module", {"out", "out_dict", "entities", "key", "k", "v", "e"})
          THEN Raise("fail_json") ELSE Raise("NameError"))
    ELSE LET found == initial_entities(o.json["auth_dump"])
         IN  IF Len(found) # Len(CEPH_INITIAL_KEYS) THEN Return(<<>>) ELSE Return(found)

build_key_path(cluster, entity) ==
    IF Contains("admin", entity)
    THEN "/etc/ceph" \o "/" \o cluster \o "." \o entity \o ".keyring"
    ELSE IF Contains("bootstrap", entity)
    THEN "/var/lib/ceph" \o "/" \o SplitOn(entity, ".", 1, "")[2] \o "/" \o cluster \o ".keyring"
    ELSE None

-----------------------------------------------------------------------------
(* The environment: what the commands answer *)

HasToken(c, t) == \E i \in 1..Len(c) : c[i] = t

GenericResps ==
    { Resp(0, Text("done\r\n"), Text("")) }
    \cup { Resp(r, Text(""), Text("Error EINVAL\n")) : r \in 1..MaxRc }

Reverse(s) == [i \in 1..Len(s) |-> s[Len(s) + 1 - i]]

\* The entity names of an auth map: the first n initial keys, the first one
\* repeated d more times, e entities that are not initial; possibly reversed
ListingNames(n, d, e, rev) ==
    LET l == SubSeq(CEPH_INITIAL_KEYS, 1, n)
             \o [i \in 1..d |-> CEPH_INITIAL_KEYS[1]]
             \o [i \in 1..e |-> "osd.0"]
    IN  IF rev THEN Reverse(l) ELSE l

Listings ==
    { ListingNames(n, d, e, rev) :
        n \in { k \in 0..Len(CEPH_INITIAL_KEYS) : k >= Len(CEPH_INITIAL_KEYS) - MaxMissing },
        d \in 0..MaxDup, e \in 0..MaxExtra, rev \in BOOLEAN }

Dump(l) == [i \in 1..Len(l) |-> [entity |-> l[i], key |-> "AQ==", caps |-> "allow *"]]

ListingOutputs ==
    { Text("not json\n"), JsonText([status |-> "error"]) }
    \cup { JsonText([auth_dump |-> Dump(l)]) : l \in Listings }

ListingResps ==
    { Resp(0, o, Text("")) : o \in ListingOutputs }
    \cup { Resp(r, Text(""), Text("Error EACCES\n")) : r \in 1..MaxRc }

EnvResps(c) == IF HasToken(c, "ls") THEN ListingResps ELSE GenericResps

\* The answers run_command may give to the commands of cmd_list
RespSeqs(cmd_list) ==
    LET upto[i \in 0..Len(cmd_list)] ==
            IF i = 0 THEN {<<>>}
            ELSE { Append(rs, r) : rs \in upto[i - 1], r \in EnvResps(cmd_list[i]) }
    IN  upto[Len(cmd_list)]

Hostname == "mon0"      \* socket.gethostname()

KeyPaths(cluster) == { build_key_path(cluster, CEPH_INITIAL_KEYS[i]) : i \in 1..Len(CEPH_INITIAL_KEYS) }

-----------------------------------------------------------------------------
(* The invocation *)

States == { "present", "update", "absent", "info", "list", "fetch_initial_keys", "purge" }

ParamCaps ==
    { NoneDict, Dict(<<>>),
      Dict(<< <<"mon", "allow r">>, <<"osd", "allow rwx">> >>),
      Dict(<< <<"", "allow *">>, <<"mon", "allow r">> >>) }

\* The parameters of the invocations explored.  list and fetch_initial_keys
\* read neither name (beyond the existence check), caps nor secret: they are
\* left at their default there.
Inputs ==
    { p \in [ state : States, name : {None, "client.rgw0"}, cluster : {"ceph"},
              containerized : {None, "docker exec ceph-mon-mon0"}, caps : ParamCaps,
              secret : {None, "", "AQBSecret=="}, import_key : BOOLEAN,
              dest : {"/etc/ceph/"} ] :
        p.state \in {"list", "fetch_initial_keys"}
            => p.name = None /\ p.caps = NoneDict /\ p.secret = None }

\* "{0}".format(v)
Format(v) == IF v = None THEN "None" ELSE v

\* The value of a dict entry that holds a number or a string
Num(n) == [num |-> n]
Str(t) == [str |-> t]

\* The external effects: a command run, os.chown to the ceph user and group,
\* os.chmod to stat.S_IRUSR, module.set_fs_attributes_if_different
Run(c) == [run |-> c]
Chown(path) == [chown |-> path, owner |-> "ceph", group |-> "ceph"]
Chmod(path) == [chmod |-> path, mode |-> "S_IRUSR"]
SetFsAttributes(path) == [set_fs_attributes |-> path]
IsRun(e) == "run" \in DOMAIN e

NoFail == [at |-> 0, rc |-> 0]

Init ==
    /\ params \in Inputs
    /\ check_mode \in BOOLEAN
    /\ pc = "start"
    /\ assigned = FALSE
    /\ rc = 0 /\ cmd = <<>> /\ out = Text("") /\ err = Text("")
    /\ result = [changed |-> FALSE, stdout |-> "", stderr |-> "", rc |-> Str("")]
    /\ entities = <<>>
    /\ idx = 0
    /\ fs = [p \in KeyPaths(params.cluster) |-> "unknown"]
    /\ on_disk = FALSE
    /\ outcome = "running"
    /\ reported = [pending |-> TRUE]
    /\ log = <<>>
    /\ first_fail = NoFail
    /\ call = [fn |-> "run_module"]
    /\ ret = Pending

-----------------------------------------------------------------------------
(* How an invocation ends *)

\* module.exit_json(**res): reported holds the keyword arguments
exit_json(res) ==
    /\ outcome' = "exit_json"
    /\ reported' = res
    /\ pc' = "done"

\* module.fail_json(msg=msg, **res)
fail_json(msg, res) ==
    /\ outcome' = "fail_json"
    /\ reported' = [msg |-> msg] @@ res
    /\ pc' = "done"

\* fatal(message, module) with the module at hand: module.fail_json(msg=message, rc=1)
fatal(message) == fail_json(message, [rc |-> Num(1)])

\* An exception nobody catches ends the invocation with a traceback
raises(e) ==
    /\ outcome' = "exception"
    /\ reported' = [exception |-> e]
    /\ pc' = "done"

-----------------------------------------------------------------------------
(* rc, cmd, out, err = exec_commands(module, cmd_list), then the effects 'after' *)
(* (\E x \in {e} : ... names the value of e)                                     *)

RunEvents(ran) == [i \in 1..Len(ran) |-> Run(ran[i])]

FirstFail(ff, base, r) ==
    IF ff.at = 0 /\ r.rc # 0 THEN [at |-> base + Len(r.ran), rc |-> r.rc] ELSE ff

Executes(returned, after) ==
    \E got \in {returned} :
        /\ assigned' = TRUE
        /\ rc' = got.rc /\ cmd' = got.cmd /\ out' = got.out /\ err' = got.err
        /\ log' = log \o RunEvents(got.ran) \o after
        /\ first_fail' = FirstFail(first_fail, Len(log), got)

-----------------------------------------------------------------------------
(* run_module *)

\* if module.check_mode: return result
CheckMode ==
    /\ pc = "start"
    /\ IF check_mode
       THEN outcome' = "return" /\ pc' = "done"
       ELSE outcome' = outcome /\ pc' = "exists_check"
    /\ UNCHANGED <<params, check_mode, assigned, rc, cmd, out, err, result, entities, idx, fs, on_disk,
                   reported, log, first_fail, call, ret>>

\* if import_key: rc, cmd, out, err = exec_commands(module, info_key(...))
ExistenceCheck ==
    /\ pc = "exists_check"
    /\ pc' = "dispatch"
    /\ IF params.import_key
       THEN LET cmd_list == info_key(params.cluster, params.name, "client.admin",
                                     admin_keyring(params.cluster), "json",
                                     params.containerized)
            IN  \E resps \in RespSeqs(cmd_list) :
                    Executes(exec_commands(cmd_list, resps).val, <<>>)
       ELSE UNCHANGED <<assigned, rc, cmd, out, err, log, first_fail>>
    /\ UNCHANGED <<params, check_mode, result, entities, idx, fs, on_disk, outcome, reported,
                   call, ret>>

\* The skip test with the secret test inverted
present_skips_given_secret(import_key, exists_rc, secret) ==
    import_key /\ exists_rc = 0 /\ Truthy(secret)

\* 'present' overrides an existing key only if a secret is provided
present_skips(import_key, exists_rc, secret) ==
    import_key /\ exists_rc = 0 /\ ~Truthy(secret)

Present ==
    /\ pc = "dispatch" /\ params.state = "present"
    /\ IF ~TruthyDict(params.caps)
       THEN /\ fatal("Capabilities must be provided when state is 'present'")
            /\ UNCHANGED <<assigned, rc, cmd, out, err, result, log, first_fail>>
       ELSE IF present_skips(params.import_key, rc, params.secret)
       THEN /\ result' = [result EXCEPT !.stdout = "skipped, since " \o Format(params.name)
                              \o " already exists, if you want to update a key use 'state: update'",
                                        !.rc = Num(rc)]
            /\ exit_json(result')
            /\ UNCHANGED <<assigned, rc, cmd, out, err, log, first_fail>>
       ELSE IF ~NameBound("container_image", run_module_locals)
       THEN /\ raises("NameError")
            /\ UNCHANGED <<assigned, rc, cmd, out, err, result, log, first_fail>>
       ELSE LET made == create_key(params.cluster, params.name, params.secret, params.caps,
                                   params.import_key, params.dest, Unbound, None)
                file_path == keyring_path(params.dest, params.cluster, params.name)
            IN  IF Raised(made)
                THEN /\ raises(made.exc)
                     /\ UNCHANGED <<assigned, rc, cmd, out, err, result, log, first_fail>>
                ELSE /\ \E resps \in RespSeqs(made.val) :
                            Executes(exec_commands(made.val, resps).val,
                                     <<SetFsAttributes(file_path)>>)
                     /\ pc' = "finish"
                     /\ UNCHANGED <<result, outcome, reported>>
    /\ UNCHANGED <<params, check_mode, entities, idx, fs, on_disk, call, ret>>

\* The skip of 'update' and 'info' when the existence check did not exit 0
Skip ==
    /\ result' = [result EXCEPT !.stdout = "skipped, since " \o Format(params.name) \o " does not exist",
                                !.rc = Num(0)]
    /\ exit_json(result')
    /\ UNCHANGED <<assigned, rc, cmd, out, err, log, first_fail>>

Update ==
    /\ pc = "dispatch" /\ params.state = "update"
    /\ IF ~TruthyDict(params.caps)
       THEN /\ fatal("Capabilities must be provided when state is 'update'")
            /\ UNCHANGED <<assigned, rc, cmd, out, err, result, log, first_fail>>
       ELSE IF ~assigned
       THEN /\ raises("UnboundLocalError")
            /\ UNCHANGED <<assigned, rc, cmd, out, err, result, log, first_fail>>
       ELSE IF rc # 0
       THEN Skip
       ELSE /\ LET cmd_list == update_key(params.cluster, params.name, params.caps,
                                          params.containerized)
               IN  \E resps \in RespSeqs(cmd_list) :
                       Executes(exec_commands(cmd_list, resps).val, <<>>)
            /\ pc' = "finish"
            /\ UNCHANGED <<result, outcome, reported>>
    /\ UNCHANGED <<params, check_mode, entities, idx, fs, on_disk, call, ret>>

\* An absent that skips, like update and info, when the key was not found
AbsentIfExists ==
    /\ pc = "dispatch" /\ params.state = "absent"
    /\ IF assigned /\ rc # 0
       THEN Skip
       ELSE /\ LET cmd_list == delete_key(params.cluster, params.name, params.containerized)
               IN  \E resps \in RespSeqs(cmd_list) :
                       Executes(exec_commands(cmd_list, resps).val, <<>>)
            /\ pc' = "finish"
            /\ UNCHANGED <<result, outcome, reported>>
    /\ UNCHANGED <<params, check_mode, entities, idx, fs, on_disk, call, ret>>

Absent ==
    /\ pc = "dispatch" /\ params.state = "absent"
    /\ LET cmd_list == delete_key(params.cluster, params.name, params.containerized)
       IN  \E resps \in RespSeqs(cmd_list) :
               Executes(exec_commands(cmd_list, resps).val, <<>>)
    /\ pc' = "finish"
    /\ UNCHANGED <<params, check_mode, result, entities, idx, fs, on_disk, outcome, reported,
                   call, ret>>

Info ==
    /\ pc = "dispatch" /\ params.state = "info"
    /\ IF ~assigned
       THEN /\ raises("UnboundLocalError")
            /\ UNCHANGED <<assigned, rc, cmd, out, err, result, log, first_fail>>
       ELSE IF rc # 0
       THEN Skip
       ELSE /\ LET cmd_list == info_key(params.cluster, params.name, "client.admin",
                                        admin_keyring(params.cluster), "json",
                                        params.containerized)
               IN  \E resps \in RespSeqs(cmd_list) :
                       Executes(exec_commands(cmd_list, resps).val, <<>>)
            /\ pc' = "finish"
            /\ UNCHANGED <<result, outcome, reported>>
    /\ UNCHANGED <<params, check_mode, entities, idx, fs, on_disk, call, ret>>

List ==
    /\ pc = "dispatch" /\ params.state = "list"
    /\ LET cmd_list == list_keys(params.cluster, "client.admin",
                                 admin_keyring(params.cluster), params.containerized)
       IN  \E resps \in RespSeqs(cmd_list) :
               Executes(exec_commands(cmd_list, resps).val, <<>>)
    /\ pc' = "finish"
    /\ UNCHANGED <<params, check_mode, result, entities, idx, fs, on_disk, outcome, reported,
                   call, ret>>

InvalidState ==
    /\ pc = "dispatch"
    /\ params.state \notin {"present", "update", "absent", "info", "list", "fetch_initial_keys"}
    /\ fail_json("State must either be \"present\" or \"absent\" or \"update\" or \"list\" or \"info\" or \"fetch_initial_keys\".",
                 [changed |-> FALSE, rc |-> Num(1)])
    /\ UNCHANGED <<params, check_mode, assigned, rc, cmd, out, err, result, entities, idx, fs, on_disk,
                   log, first_fail, call, ret>>

-----------------------------------------------------------------------------
(* state == "fetch_initial_keys" *)

mon_keyring(cluster, hostname) == "/var/lib/ceph/mon/" \o cluster \o "-" \o hostname \o "/keyring"

\* The listing, lookup_ceph_initial_entities and the lookup of the ceph
\* user and group, up to the for loop
FetchInitialKeys ==
    /\ pc = "dispatch" /\ params.state = "fetch_initial_keys"
    /\ LET cmd_list == list_keys(params.cluster, "mon.",
                                 mon_keyring(params.cluster, Hostname), params.containerized)
       IN  \E resps \in RespSeqs(cmd_list) :
             \E r \in {exec_commands(cmd_list, resps).val} :
             \E found \in {lookup_ceph_initial_entities(r.out)} :
                 /\ Executes(r, <<>>)
                 /\ IF r.rc # 0
                    THEN /\ result' = [result EXCEPT !.stdout = "failed to retrieve ceph keys",
                                                     !.rc = Num(0)]
                         /\ exit_json(result')
                         /\ UNCHANGED <<entities, idx>>
                    ELSE IF Raised(found)
                    THEN raises(found.exc) /\ UNCHANGED <<result, entities, idx>>
                    ELSE IF found.val = <<>>
                    THEN /\ fatal("Failed to find some of the initial entities")
                         /\ UNCHANGED <<result, entities, idx>>
                    ELSE \E ceph_account \in BOOLEAN :    \* pwd.getpwnam / grp.getgrnam
                           IF ~ceph_account
                           THEN raises("KeyError") /\ UNCHANGED <<result, entities, idx>>
                           ELSE /\ entities' = found.val
                                /\ idx' = 1
                                /\ pc' = "fetch_loop"
                                /\ UNCHANGED <<result, outcome, reported>>
    /\ UNCHANGED <<params, check_mode, fs, on_disk, call, ret>>

\* The fetch command without the extend: the key goes to stdout
fetch_cmd_stdout(cluster, entity, key_path, containerized) ==
    << info_key(cluster, entity, "mon.", mon_keyring(cluster, Hostname), "plain",
                containerized)[1] >>

\* info_cmd = info_key(...); info_cmd[0].extend(['-o', key_path])
fetch_cmd(cluster, entity, key_path, containerized) ==
    << info_key(cluster, entity, "mon.", mon_keyring(cluster, Hostname), "plain",
                containerized)[1] \o <<"-o", key_path>> >>

\* One iteration of 'for entity in entities', or the end of the loop
FetchLoop ==
    /\ pc = "fetch_loop"
    /\ IF idx > Len(entities)
       THEN /\ pc' = "finish"
            /\ UNCHANGED <<assigned, rc, cmd, out, err, idx, fs, on_disk, outcome, reported,
                           log, first_fail>>
       ELSE \E key_path \in {build_key_path(params.cluster, entities[idx])} :
              IF key_path = None
              THEN /\ fatal("Failed to build key path, no entity yet?")
                   /\ UNCHANGED <<assigned, rc, cmd, out, err, idx, fs, on_disk, log, first_fail>>
              ELSE \E isfile \in { b \in BOOLEAN : fs[key_path] = "unknown"
                                                   \/ b = (fs[key_path] = "file") } :
                /\ on_disk' = isfile
                /\ IF isfile
                   THEN /\ idx' = idx + 1          \* continue
                        /\ fs' = [fs EXCEPT ![key_path] = "file"]
                        /\ UNCHANGED <<assigned, rc, cmd, out, err, pc, outcome, reported,
                                       log, first_fail>>
                   ELSE \E info_cmd \in {fetch_cmd(params.cluster, entities[idx], key_path,
                                                   params.containerized)} :
                        \E resps \in RespSeqs(info_cmd), written \in BOOLEAN,
                           chown_ok \in BOOLEAN, chmod_ok \in BOOLEAN :
                          \* chown of a path that is no file raises OSError
                          /\ chown_ok => written
                          /\ chmod_ok => chown_ok
                          /\ fs' = [fs EXCEPT ![key_path] = IF written THEN "file" ELSE "absent"]
                          /\ Executes(exec_commands(info_cmd, resps).val,
                                      <<Chown(key_path)>>
                                      \o (IF chown_ok
                                          THEN <<Chmod(key_path)>>
                                          ELSE <<>>))
                          /\ IF chown_ok /\ chmod_ok
                             THEN /\ idx' = idx + 1
                                  /\ UNCHANGED <<pc, outcome, reported>>
                             ELSE /\ fatal("Failed to set owner/group/permissions of "
                                           \o key_path)
                                  /\ idx' = idx
    /\ UNCHANGED <<params, check_mode, result, entities, call, ret>>

-----------------------------------------------------------------------------
(* The result record and the exit *)

\* out.rstrip(b"\r\n") on what run_command returned: bytes methods take bytes
\* on Python 2 (str is bytes); on Python 3 run_command returns text and
\* str.rstrip(bytes) raises TypeError
Interpreters == {"python2", "python3"}

Finish ==
    /\ pc = "finish"
    /\ \E python \in Interpreters :
         IF python = "python3"
         THEN raises("TypeError") /\ UNCHANGED result
         ELSE /\ result' = [cmd |-> cmd, rc |-> Num(rc), stdout |-> rstrip(out.text),
                            stderr |-> rstrip(err.text), changed |-> TRUE]
              /\ IF rc # 0
                 THEN fail_json("non-zero return code", result')
                 ELSE exit_json(result')
    /\ UNCHANGED <<params, check_mode, assigned, rc, cmd, out, err, entities, idx, fs, on_disk, log,
                   first_fail, call, ret>>

Next ==
    \/ CheckMode
    \/ ExistenceCheck
    \/ Present
    \/ Update
    \/ Absent
    \/ Info
    \/ List
    \/ FetchInitialKeys
    \/ FetchLoop
    \/ InvalidState
    \/ Finish

Spec == Init /\ [][Next]_vars

-----------------------------------------------------------------------------
(* Properties of an invocation *)

Done == pc = "done"

ValidStates == {"present", "update", "absent", "info", "list", "fetch_initial_keys"}

\* The positions of log that are commands run
Runs == { i \in 1..Len(log) : IsRun(log[i]) }

EndsWith(c, suffix) ==
    Len(c) >= Len(suffix) /\ SubSeq(c, Len(c) - Len(suffix) + 1, Len(c)) = suffix

StartsWith(c, prefix) ==
    Len(c) >= Len(prefix) /\ SubSeq(c, 1, Len(prefix)) = prefix

\* The existence check has run and exited 0 / exited non-zero
ExistsCheckRan == params.import_key /\ Len(log) >= 1
KeyFound == ExistsCheckRan /\ first_fail.at # 1
KeyNotFound == ExistsCheckRan /\ first_fail.at = 1

\* C1: once a command the module built has exited non-zero, no further
\* command is run and the invocation ends in fail_json reporting that exit
\* code.  Stated for the commands of fetch_initial_keys the claim names: the
\* listing and the per-entity fetches.
C1_FetchFailureIsHardFailure ==
    ( /\ params.state = "fetch_initial_keys"
      /\ first_fail.at # 0
      /\ \/ HasToken(log[first_fail.at].run, "ls")
         \/ HasToken(log[first_fail.at].run, "-o") ) =>
        /\ \A i \in Runs : i <= first_fail.at
        /\ Done => outcome = "fail_json" /\ reported.rc = Num(first_fail.rc)

\* The caller's input is in error: capabilities missing or empty for present
\* or update, or a state that is none of the six
UserInputError ==
    \/ params.state \in {"present", "update"} /\ ~TruthyDict(params.caps)
    \/ params.state \notin ValidStates

\* C3: on a user input error no external command is ever run, the
\* key-existence check included, and the invocation (outside check mode,
\* where it ends before any validation) ends in fail_json.
C3_InputErrorRunsNothing ==
    UserInputError =>
        /\ Runs = {}
        /\ (Done /\ ~check_mode) => outcome = "fail_json"

\* C4: state 'present' with capabilities and a secret runs the ceph-authtool
\* command for <dest>/<cluster>.<name>.keyring with that secret whatever the
\* existence check said, runs 'auth import' after it only if import_key is
\* set and the authoring command exited 0, and ends with a result record
\* (exit_json or fail_json), not with an internal error.
C4_PresentWithSecretCreates ==
    ( /\ params.state = "present" /\ TruthyDict(params.caps) /\ Truthy(params.secret)
      /\ ~check_mode /\ Done ) =>
        LET path == keyring_path(params.dest, params.cluster, params.name)
            authoring == { i \in Runs : /\ HasToken(log[i].run, "ceph-authtool")
                                        /\ HasToken(log[i].run, path)
                                        /\ HasToken(log[i].run, params.secret) }
            imports == { i \in Runs : HasToken(log[i].run, "import") }
        IN  /\ outcome \in {"exit_json", "fail_json"}
            /\ Cardinality(authoring) = 1
            /\ \A i \in imports :
                 /\ params.import_key
                 /\ i - 1 \in authoring
                 /\ first_fail.at # i - 1
            /\ (params.import_key /\ \A i \in authoring : first_fail.at # i)
                 => imports # {}

\* C5: state 'present' with capabilities, import_key set, no secret and an
\* existence check that exited 0 is a no-op: the existence check is the only
\* external effect (no ceph-authtool, no import, no file attribute touched)
\* and the invocation ends in exit_json with changed false, rc 0 and a
\* message that starts with 'skipped'.
C5_PresentExistingIsNoOp ==
    ( /\ params.state = "present" /\ TruthyDict(params.caps) /\ params.import_key
      /\ ~Truthy(params.secret) /\ KeyFound ) =>
        /\ Len(log) = 1
        /\ HasToken(log[1].run, "get")
        /\ Done => /\ outcome = "exit_json"
                   /\ reported.changed = FALSE
                   /\ reported.rc = Num(0)
                   /\ StartsWith(reported.stdout, "skipped")

\* A 'present' for an existing key, with capabilities whose first key is
\* empty and without a secret, has ended
C5_Witness ==
    /\ params.state = "present" /\ TruthyDict(params.caps) /\ params.import_key
    /\ params.caps.items[1][1] = ""
    /\ params.secret = "" /\ KeyFound /\ Done

\* C6: 'update' (with capabilities) and 'info' on a key that does not exist
\* (no existence check said it does), whatever import_key and the other
\* options are, end in exit_json with rc 0, changed false and a message that
\* starts with 'skipped', and never run 'auth caps' nor a second 'auth get'.
C6_UpdateInfoMissingKeySkips ==
    ( /\ params.state \in {"update", "info"}
      /\ params.state = "update" => TruthyDict(params.caps)
      /\ ~check_mode /\ ~KeyFound /\ Done ) =>
        /\ outcome = "exit_json"
        /\ reported.rc = Num(0)
        /\ reported.changed = FALSE
        /\ StartsWith(reported.stdout, "skipped")
        /\ \A i \in Runs : i = 1 /\ ~HasToken(log[i].run, "caps")

\* C7: the per-entity part of fetch_initial_keys (the loop, a fetch command
\* with '-o <path>', a chown or chmod) is reached only if every one of the
\* seven initial entity names was found in the listing.
C7_FetchNeedsAllSeven ==
    ( \/ pc = "fetch_loop"
      \/ \E i \in 1..Len(log) : ~IsRun(log[i]) \/ HasToken(log[i].run, "-o") ) =>
        Range(entities) = Range(CEPH_INITIAL_KEYS)

\* The 'auth del <name>' commands run so far
Deletes == { i \in Runs : EndsWith(log[i].run, <<"auth", "del", params.name>>) }

\* C8 as stated: every invocation with state 'absent' has run the delete
\* command exactly once when it ends.
C8_AbsentAlwaysDeletes ==
    (params.state = "absent" /\ Done) => Cardinality(Deletes) = 1

\* C8 amended: every invocation with state 'absent' that is not in check mode
\* has run 'ceph ... auth del <name>' exactly once when it ends, whatever the
\* existence check answered, and never more than once.
C8_AbsentDeletesOutsideCheckMode ==
    params.state = "absent" =>
        /\ Cardinality(Deletes) <= 1
        /\ (Done /\ ~check_mode) => Cardinality(Deletes) = 1
        /\ check_mode => Runs = {}

\* An 'absent' has ended for a key the existence check did not find
C8_Witness ==
    /\ params.state = "absent" /\ ~check_mode /\ Done
    /\ KeyNotFound
    /\ Cardinality(Deletes) = 1

\* The destination of an initial entity's key, written out
KeyFileOf(cluster, entity) ==
    IF entity = "client.admin"
    THEN "/etc/ceph/" \o cluster \o ".client.admin.keyring"
    ELSE "/var/lib/ceph/" \o SubSeq(entity, Len("client.") + 1, Len(entity))
         \o "/" \o cluster \o ".keyring"

\* C10: each step of the loop handles the next entity of the list.  If its
\* key file is on disk nothing is run or changed and the loop moves on.  If
\* not, exactly 'auth get <entity> -f plain -o <path>' is run, then chown to
\* ceph:ceph of that path, then chmod to owner-read-only of that path; when
\* chown or chmod fails the invocation ends in fail_json with rc 1 (chmod is
\* not attempted after a failed chown) and the loop does not move on.  Once
\* the invocation has ended nothing more is run or changed.
C10_FetchLoopStep ==
    [][ /\ (pc = "fetch_loop" /\ idx <= Len(entities)) =>
           LET entity == entities[idx]
               path == KeyFileOf(params.cluster, entity)
               news == SubSeq(log', Len(log) + 1, Len(log'))
           IN  /\ entity \in Range(CEPH_INITIAL_KEYS)
               /\ SubSeq(log', 1, Len(log)) = log
               /\ entities' = entities
               /\ IF on_disk'
                  THEN news = <<>> /\ idx' = idx + 1 /\ pc' = "fetch_loop"
                  ELSE /\ Len(news) \in {2, 3}
                       /\ IsRun(news[1])
                       /\ EndsWith(news[1].run,
                                   <<"auth", "get", entity, "-f", "plain", "-o", path>>)
                       /\ news[2] = Chown(path)
                       /\ Len(news) = 3 => news[3] = Chmod(path)
                       /\ \/ Len(news) = 3 /\ idx' = idx + 1 /\ pc' = "fetch_loop"
                          \/ /\ pc' = "done" /\ outcome' = "fail_json" /\ reported'.rc = Num(1)
                             /\ idx' = idx
        /\ Done => log' = log /\ idx' = idx /\ fs' = fs
      ]_vars

\* The loop skipped the first entity, fetched the second and ended on the
\* failed chown of the third
C10_Witness ==
    /\ params.state = "fetch_initial_keys" /\ Done /\ outcome = "fail_json"
    /\ idx = 3
    /\ Cardinality({ i \in Runs : HasToken(log[i].run, "-o") }) = 2
    /\ Cardinality({ i \in 1..Len(log) : "chmod" \in DOMAIN log[i] }) = 1
    /\ "chown" \in DOMAIN log[Len(log)]

-----------------------------------------------------------------------------
(* A library function applied on its own: call holds the arguments, ret the  *)
(* result once the function has returned.  No invocation is running.         *)

Library ==
    /\ params = [state |-> "list", name |-> None, cluster |-> "ceph", containerized |-> None,
                 caps |-> NoneDict, secret |-> None, import_key |-> TRUE, dest |-> "/etc/ceph/"]
    /\ check_mode = FALSE
    /\ pc = "library"
    /\ assigned = FALSE
    /\ rc = 0 /\ cmd = <<>> /\ out = Text("") /\ err = Text("")
    /\ result = [changed |-> FALSE, stdout |-> "", stderr |-> "", rc |-> Str("")]
    /\ entities = <<>>
    /\ idx = 0
    /\ fs = [p \in KeyPaths("ceph") |-> "unknown"]
    /\ on_disk = FALSE
    /\ outcome = "running"
    /\ reported = [pending |-> TRUE]
    /\ log = <<>>
    /\ first_fail = NoFail
    /\ ret = Pending

LibraryUnchanged ==
    UNCHANGED <<params, check_mode, pc, assigned, rc, cmd, out, err, result, entities, idx,
                fs, on_disk, outcome, reported, log, first_fail, call>>

\* Sequences over S of length 0..n
SeqsUpTo(S, n) == UNION { [1..k -> S] : k \in 0..n }

(* exec_commands *)

CmdPool ==
    { delete_key("ceph", "client.rgw0", None)[1],
      info_key("ceph", "client.rgw0", "client.admin", admin_keyring("ceph"), "json", None)[1],
      update_key("ceph", "client.rgw0", Dict(<< <<"mon", "allow r">> >>), "docker exec mon")[1] }

InitExec ==
    /\ Library
    /\ \E cmd_list \in SeqsUpTo(CmdPool, MaxCmds) :
       \E resps \in RespSeqs(cmd_list) :
          call = [fn |-> "exec_commands", cmd_list |-> cmd_list, resps |-> resps]

CallExecCommands ==
    /\ call.fn = "exec_commands"
    /\ ret = Pending
    /\ ret' = exec_commands(call.cmd_list, call.resps)
    /\ LibraryUnchanged

SpecExec == InitExec /\ [][CallExecCommands]_vars

\* C2: exec_commands on a non-empty list hands the commands to run_command in
\* list order up to and including the first one that exits non-zero, or all of
\* them if none does, and returns the exit code, command, stdout and stderr of
\* that last command run.
C2_ExecCommandsHaltsAtFirstFailure ==
    (call.fn = "exec_commands" /\ ret # Pending /\ Len(call.cmd_list) > 0) =>
        LET n == Len(call.cmd_list)
            failing == { i \in 1..n : call.resps[i].rc # 0 }
            k == IF failing = {} THEN n
                 ELSE CHOOSE i \in failing : \A j \in failing : i <= j
        IN  /\ ~Raised(ret)
            /\ ret.val.ran = SubSeq(call.cmd_list, 1, k)
            /\ ret.val.rc = call.resps[k].rc
            /\ ret.val.cmd = call.cmd_list[k]
            /\ ret.val.out = call.resps[k].out
            /\ ret.val.err = call.resps[k].err

\* exec_commands has returned from a list of three commands whose second one failed
C2_Witness ==
    /\ call.fn = "exec_commands" /\ ret # Pending
    /\ Len(call.cmd_list) = 3
    /\ call.resps[1].rc = 0 /\ call.resps[2].rc # 0 /\ call.resps[3].rc = 0
    /\ call.cmd_list[1] # call.cmd_list[2] /\ call.cmd_list[2] # call.cmd_list[3]

(* generate_caps *)

CapKeys == {"", "mon", "osd", "mds"}
CapValues == {"allow *", ""}

\* The mappings of at most MaxCaps entries: no key twice
CapsMappings ==
    { m \in SeqsUpTo(CapKeys \X CapValues, MaxCaps) :
        \A i, j \in 1..Len(m) : i # j => m[i][1] # m[j][1] }

InitCaps ==
    /\ Library
    /\ \E c \in {<<>>, <<"caps", "client.rgw0">>},
          t \in {"ceph", "ceph-authtool"},
          m \in CapsMappings :
          call = [fn |-> "generate_caps", cmd |-> c, type |-> t, caps |-> m]

CallGenerateCaps ==
    /\ call.fn = "generate_caps"
    /\ ret = Pending
    /\ ret' = Return(generate_caps(call.cmd, call.type, call.caps))
    /\ LibraryUnchanged

SpecCaps == InitCaps /\ [][CallGenerateCaps]_vars

\* C9: generate_caps returns the tokens it was given followed, for each entry
\* with a non-empty key and in the mapping's order, by (key, value) in the
\* 'ceph' dialect and by ('--cap', key, value) in the 'ceph-authtool' dialect;
\* an entry with an empty key adds nothing.
C9_CapsTokens ==
    (call.fn = "generate_caps" /\ ret # Pending) =>
        LET kept == SelectSeq(call.caps, LAMBDA e : e[1] # "")
            w == IF call.type = "ceph-authtool" THEN 3 ELSE 2
            base == Len(call.cmd)
            tokens == ret.val
        IN  /\ ~Raised(ret)
            /\ Len(tokens) = base + w * Len(kept)
            /\ SubSeq(tokens, 1, base) = call.cmd
            /\ \A j \in 1..Len(kept) :
                 /\ tokens[base + w * j - 1] = kept[j][1]
                 /\ tokens[base + w * j] = kept[j][2]
                 /\ call.type = "ceph-authtool" => tokens[base + w * j - 2] = "--cap"
            /\ call.type = "ceph"
                 => \A i \in (base + 1)..Len(tokens) : tokens[i] # "--cap"

\* generate_caps has returned for the authoring dialect from a mapping whose
\* second entry of three has an empty key
C9_Witness ==
    /\ call.fn = "generate_caps" /\ ret # Pending
    /\ call.type = "ceph-authtool"
    /\ Len(call.cmd) > 0
    /\ Len(call.caps) = 3
    /\ call.caps[1][1] # "" /\ call.caps[2][1] = "" /\ call.caps[3][1] # ""

====
